---- MODULE Spec2Model ----
\* Content publishing pipeline of sofie-llama-backend (social/): the approval
\* queue (ApprovalSystem), the platform registry and connector, modelled as a
\* state machine over a heap of SocialPost objects.
EXTENDS Integers, Sequences, FiniteSets, TLC

\* ---------------------------------------------------------------- bounds
\* Post objects callers construct.
MaxPosts == 2
\* Entries over the three buckets together.
MaxQueue == 3
\* Days the clock runs over, counted from the epoch: 0..MaxDay.
MaxDay == 6
\* Milliseconds the clock runs over within a day: 0..MaxMs.
MaxMs == 1
\* Calls of ContentScheduler.run().
MaxRuns == 2
\* The largest post count of a plan handed to the scheduler.
MaxPostCount == 7
\* Calls of run() with such a plan.
MaxQuotaRuns == 1
\* Lines written to the console by the connector and by approveAndPost.
MaxLog == 2
\* Edits a caller makes to the drafts it holds.
MaxEdits == 2

\* ---------------------------------------------------------------- inputs
PostIds == {"post_1", "post_2"}
ThemeInputs == {"day_in_hive", "token_tuesday", "wellness_wednesday"}
ReasonInputs == {"", "off-brand"}
\* The like counts a caller wants recorded for a post, one of them negative.
LikesInputs == {-1, 5}

\* content-strategy.ts: type ContentTheme
ContentTheme ==
  {"day_in_hive", "token_tuesday", "wellness_wednesday", "tech_thursday",
   "future_friday", "system_saturday", "sovereignty_sunday"}

\* ---------------------------------------------------------------- static data
\* connector.ts: export const PLATFORMS
PLATFORMS ==
  [ twitter   |-> [maxCharacters |-> 280,  supportsVideo |-> TRUE, supportsImages |-> TRUE],
    instagram |-> [maxCharacters |-> 2200, supportsVideo |-> TRUE, supportsImages |-> TRUE],
    tiktok    |-> [maxCharacters |-> 2200, supportsVideo |-> TRUE, supportsImages |-> FALSE],
    youtube   |-> [maxCharacters |-> 5000, supportsVideo |-> TRUE, supportsImages |-> TRUE],
    linkedin  |-> [maxCharacters |-> 3000, supportsVideo |-> TRUE, supportsImages |-> TRUE] ]

\* content-strategy.ts: export const WEEKLY_STRATEGY
WEEKLY_STRATEGY ==
  [ day_in_hive |->
      [theme |-> "day_in_hive", day |-> "Monday",
       platforms |-> <<"twitter", "instagram", "tiktok">>, postCount |-> 5],
    token_tuesday |->
      [theme |-> "token_tuesday", day |-> "Tuesday",
       platforms |-> <<"twitter", "linkedin", "youtube">>, postCount |-> 4],
    wellness_wednesday |->
      [theme |-> "wellness_wednesday", day |-> "Wednesday",
       platforms |-> <<"instagram", "tiktok", "youtube">>, postCount |-> 5],
    tech_thursday |->
      [theme |-> "tech_thursday", day |-> "Thursday",
       platforms |-> <<"twitter", "linkedin", "youtube">>, postCount |-> 3],
    future_friday |->
      [theme |-> "future_friday", day |-> "Friday",
       platforms |-> <<"twitter", "youtube", "linkedin">>, postCount |-> 4],
    system_saturday |->
      [theme |-> "system_saturday", day |-> "Saturday",
       platforms |-> <<"instagram", "tiktok", "youtube">>, postCount |-> 4],
    sovereignty_sunday |->
      [theme |-> "sovereignty_sunday", day |-> "Sunday",
       platforms |-> <<"twitter", "instagram", "youtube">>, postCount |-> 3] ]

\* connector.ts: SocialPost.status
StatusType == {"pending", "approved", "posted", "failed"}

\* connector.ts: interface SocialPost (the fields the approval queue reads or
\* carries); platforms is a string[] nothing checks against PLATFORMS.
\* contentLength is content.length; mediaUrls is empty when the post has none.
SocialPost(themes, statuses, platformLists, lengths, mediaLists) ==
  [id : PostIds, theme : themes, status : statuses, platforms : platformLists,
   contentLength : lengths, mediaUrls : mediaLists]

\* Posts over every theme class and every status, on registered platforms.
PostInputs ==
  SocialPost(ThemeInputs, StatusType, { <<"twitter", "instagram">> }, {40}, { << >> })

\* Draft posts as the scheduler builds them: status pending.
DraftInputs ==
  SocialPost({"day_in_hive", "wellness_wednesday"}, {"pending"},
             { <<"twitter", "instagram">> }, {40}, { << >> })

\* Draft posts whose platform list may name a platform PLATFORMS does not hold.
RegistryInputs ==
  SocialPost({"day_in_hive", "wellness_wednesday"}, {"pending"},
             { <<"twitter", "instagram">>, <<"twitter", "mastodon">> }, {40},
             { << >> })

\* Posts as they come to the connector: one or two targets, content within
\* every platform's limit or longer than twitter's.
PublishInputs ==
  SocialPost({"day_in_hive", "wellness_wednesday"}, {"pending"},
             { <<"twitter">>, <<"twitter", "instagram">> }, {40, 300},
             { << >> })

\* Approved-on-submit posts for instagram and tiktok: without media, with an
\* image, with a video.
MediaInputs ==
  SocialPost({"day_in_hive"}, {"pending"}, { <<"instagram", "tiktok">> }, {40},
             { << >>, <<"photo.png">>, <<"clip.mp4">> })

\* system.ts: private autoTrustedThemes
autoTrustedThemesTuesdayMissing == <<"day_in_hive">>
autoTrustedThemes == <<"day_in_hive", "token_tuesday">>

\* Array.prototype.includes
includes(arr, x) == \E i \in DOMAIN arr : arr[i] = x

\* The scheduler has not read a plan yet.
NoPlan == [theme |-> "", day |-> "", platforms |-> << >>, postCount |-> 0]

VARIABLES
  heap,      \* the SocialPost objects allocated so far; a reference is an index
  queue,     \* ApprovalSystem.queue: three arrays of references
  returned,  \* what the last getQueue() handed to its caller
  last,      \* the last call: operation, arguments, result
  clock,     \* the system clock: days since the epoch, milliseconds of the day
  scheduler, \* the ContentScheduler: its queue, the posts of run(), its loop
  console,   \* the lines logged by PlatformConnector.post and approveAndPost
  tracker,   \* the AnalyticsTracker: its metrics map, the last trackPost call
  result,    \* the value the last read-only call returned to its caller
  strategy,  \* WEEKLY_STRATEGY, the object: its entries and their arrays
  drafts     \* the posts a caller of generateDailyContent() holds, and how
             \* often it has edited them

vars ==
  <<heap, queue, returned, last, clock, scheduler, console, tracker, result,
    strategy, drafts>>

schedVars == <<clock, scheduler, strategy, drafts>>

ioVars == <<console, tracker, result>>

Refs == DOMAIN heap

\* A call record: post is the SocialPost the call is about (submit's argument,
\* the object approve or reject found; 0: none), id the postId argument, arg the second string argument (reject's reason, post's platform),
\* ret the value the returned promise resolves to, or the error it rejects with.
NoCall == [op |-> "none", post |-> 0, id |-> "", arg |-> "", ret |-> "void"]

Call(op, post, id, arg, ret) ==
  [op |-> op, post |-> post, id |-> id, arg |-> arg, ret |-> ret]

\* No trackPost call yet.
NoTrack == [platform |-> "", postId |-> "", likes |-> 0]

\* A console line: what was logged, about which post object (0: none), under
\* which post id, for which platform.
Line(tag, r, postId, platform) ==
  [tag |-> tag, post |-> r, id |-> postId, platform |-> platform]

EmptyQueue == [pending |-> << >>, approved |-> << >>, rejected |-> << >>]

\* system.ts: private queue = { pending: [], approved: [], rejected: [] }
Init ==
  /\ heap = << >>
  /\ queue = EmptyQueue
  /\ returned = [ref |-> "none", copy |-> EmptyQueue]
  /\ last = NoCall
  /\ clock = [day |-> 0, ms |-> 0]
  /\ scheduler = [queue |-> << >>, plan |-> NoPlan, posts |-> << >>,
                  i |-> 0, runs |-> 0]
  /\ console = << >>
  /\ tracker = [metrics |-> << >>, call |-> NoTrack]
  /\ result = "none"
  /\ strategy = WEEKLY_STRATEGY
  /\ drafts = [posts |-> << >>, edits |-> 0]

QueueLen == Len(queue.pending) + Len(queue.approved) + Len(queue.rejected)

\* ---------------------------------------------------------------- ApprovalSystem
\* this.queue.pending.find(p => p.id === postId): the index of the first match,
\* 0 when there is none.
find(arr, postId) ==
  IF \E i \in DOMAIN arr : heap[arr[i]].id = postId
  THEN CHOOSE i \in DOMAIN arr :
         /\ heap[arr[i]].id = postId
         /\ \A j \in 1..(i - 1) : heap[arr[j]].id # postId
  ELSE 0

\* this.queue.pending.filter(p => p.id !== postId)
filter(arr, postId) == SelectSeq(arr, LAMBDA r : heap[r].id # postId)

\* submit refusing a post whose content is over the limit of a platform it
\* targets.
submitLengthChecked(h, post) ==
  IF \E k \in DOMAIN h[post].platforms :
       /\ h[post].platforms[k] \in DOMAIN PLATFORMS
       /\ h[post].contentLength > PLATFORMS[h[post].platforms[k]].maxCharacters
  THEN /\ heap' = h
       /\ queue' = queue
       /\ last' = Call("submit", post, "", "", "InvalidArgumentError")
  ELSE IF includes(autoTrustedThemes, h[post].theme)
  THEN /\ heap' = [h EXCEPT ![post].status = "approved"]
       /\ queue' = [queue EXCEPT !.approved = Append(@, post)]
       /\ last' = Call("submit", post, "", "", "true")
  ELSE /\ heap' = h
       /\ queue' = [queue EXCEPT !.pending = Append(@, post)]
       /\ last' = Call("submit", post, "", "", "false")
\* async submit(post): Promise<boolean>
\* (h: the heap at the call, holding the object post refers to)
submit(h, post) ==
  IF includes(autoTrustedThemes, h[post].theme)
  THEN /\ heap' = [h EXCEPT ![post].status = "approved"]
       /\ queue' = [queue EXCEPT !.approved = Append(@, post)]
       /\ last' = Call("submit", post, "", "", "true")
  ELSE /\ heap' = h
       /\ queue' = [queue EXCEPT !.pending = Append(@, post)]
       /\ last' = Call("submit", post, "", "", "false")

\* async approve(postId): Promise<void>
approve(postId) ==
  LET i == find(queue.pending, postId) IN
  /\ IF i # 0
     THEN /\ heap' = [heap EXCEPT ![queue.pending[i]].status = "approved"]
          /\ queue' = [queue EXCEPT !.approved = Append(@, queue.pending[i]),
                                    !.pending = filter(@, postId)]
     ELSE UNCHANGED <<heap, queue>>
  /\ last' = Call("approve", IF i # 0 THEN queue.pending[i] ELSE 0, postId, "", "void")

\* async reject(postId, reason): Promise<void>
reject(postId, reason) ==
  LET i == find(queue.pending, postId) IN
  /\ IF i # 0
     THEN /\ heap' = [heap EXCEPT ![queue.pending[i]].status = "failed"]
          /\ queue' = [queue EXCEPT !.rejected = Append(@, queue.pending[i]),
                                    !.pending = filter(@, postId)]
     ELSE UNCHANGED <<heap, queue>>
  /\ last' = Call("reject", IF i # 0 THEN queue.pending[i] ELSE 0, postId, reason, "void")

\* getQueue(): ApprovalQueue -- return this.queue
getQueue == [ref |-> "this.queue", copy |-> EmptyQueue]

\* ---------------------------------------------------------------- PlatformConnector
\* async post(platform, content: SocialPost): Promise<boolean>
\* logs the post and returns true.
post(platform, content) ==
  /\ console' = Append(console, Line("Posting", content, heap[content].id, platform))
  /\ last' = Call("post", content, "", platform, "true")
  /\ UNCHANGED <<heap, queue>>

\* async schedule(platform, content: SocialPost, time): Promise<boolean>
\* logs the time and returns true.
schedule(platform, content) ==
  /\ last' = Call("schedule", content, "", platform, "true")
  /\ UNCHANGED <<heap, queue>>

\* ---------------------------------------------------------------- AnalyticsTracker
\* async trackPost(platform, postId): Promise<void> -- logs the pair.
\* (likes: the count the caller has for the post; the method has no parameter
\* for it and this.metrics is not written)
trackPost(platform, postId, likes) ==
  /\ tracker' = [tracker EXCEPT !.call =
                   [platform |-> platform, postId |-> postId, likes |-> likes]]
  /\ last' = Call("trackPost", 0, postId, platform, "void")

\* getDashboard with a counter of its own calls kept in this.metrics.
getDashboardCounted ==
  /\ result' = [platforms |-> [n \in DOMAIN tracker.metrics |-> tracker.metrics[n].value],
                timestamp |-> <<clock.day, clock.ms>>]
  /\ tracker' = [tracker EXCEPT !.metrics =
                   Append(@, [key |-> "dashboard", value |-> [platform |-> "dashboard"]])]
  /\ last' = Call("getDashboard", 0, "", "", "void")
\* async getDashboard(): { platforms: Array.from(this.metrics.values()),
\* timestamp: new Date().toISOString() }; this.metrics is kept as the list of
\* its entries in insertion order.
getDashboard ==
  /\ result' = [platforms |-> [n \in DOMAIN tracker.metrics |-> tracker.metrics[n].value],
                timestamp |-> <<clock.day, clock.ms>>]
  /\ tracker' = tracker
  /\ last' = Call("getDashboard", 0, "", "", "void")

\* ---------------------------------------------------------------- ContentStrategy
\* Date.now(): milliseconds since the epoch.
now == clock.day * 86400000 + clock.ms

\* new Date().getDay(): 0 is Sunday; day 0 of the epoch was a Thursday.
getDay == (clock.day + 4) % 7

\* getTodayTheme with token_tuesday in Wednesday's place as well.
getTodayThemeTuesdayTwice ==
  LET themes == <<"sovereignty_sunday", "day_in_hive", "token_tuesday",
                  "token_tuesday", "tech_thursday", "future_friday",
                  "system_saturday">>
  IN  themes[getDay + 1]
\* getTodayTheme(): ContentTheme
getTodayTheme ==
  LET themes == <<"sovereignty_sunday", "day_in_hive", "token_tuesday",
                  "wellness_wednesday", "tech_thursday", "future_friday",
                  "system_saturday">>
  IN  themes[getDay + 1]

\* The plan taken from the table's first entry, whatever the day.
getTodaysPlanMonday == strategy["day_in_hive"]
\* getTodaysPlan(): ContentPlan
getTodaysPlan == strategy[getTodayTheme]

\* getHashtags: const tags: Record<ContentTheme, string[]>
tags ==
  [ day_in_hive        |-> <<"#DayInTheHive", "#SwarmIntelligence">>,
    token_tuesday      |-> <<"#TokenTuesday", "#MINEtoken">>,
    wellness_wednesday |-> <<"#WellnessWednesday", "#Sovereignty">>,
    tech_thursday      |-> <<"#TechThursday", "#OpenSource">>,
    future_friday      |-> <<"#FutureFriday", "#Quantum">>,
    system_saturday    |-> <<"#SystemSaturday", "#Ecosystem">>,
    sovereignty_sunday |-> <<"#SovereigntySunday", "#Love">> ]

\* getHashtags with the first base tag once more at the end.
getHashtagsBaseAgain(theme) ==
  <<"#SofieLabs", "#TerraCare">> \o tags[theme] \o <<"#SofieLabs">>
\* getHashtags(theme): string[] -- ["#SofieLabs", "#TerraCare", ...tags[theme]]
getHashtags(theme) == <<"#SofieLabs", "#TerraCare">> \o tags[theme]

\* ---------------------------------------------------------------- ContentScheduler
\* calculateOptimalTime with the index clamped to the last of the five hours.
calculateOptimalTimeClamped(index, total) ==
  LET times == <<8, 12, 15, 18, 20>>
      hour == times[IF index < Len(times) THEN index + 1 ELSE Len(times)]
  IN  [day |-> clock.day, hour |-> hour]
\* private calculateOptimalTime(index, total): Date -- today at one of the
\* five hours; a Date is modelled by its day and its hour.
calculateOptimalTime(index, total) ==
  LET times == <<8, 12, 15, 18, 20>>
      hour == times[(index % Len(times)) + 1]
  IN  [day |-> clock.day, hour |-> hour]

\* The length of a content that came out empty.
contentLengthEmpty(theme) == 0
\* `Generated content for ${plan.theme}`.length
contentLength(theme) ==
  22 + CASE theme = "day_in_hive" -> 11
         [] theme \in {"token_tuesday", "tech_thursday", "future_friday"} -> 13
         [] theme = "system_saturday" -> 15
         [] OTHER -> 18

\* generateDailyContent with the loop running to i <= plan.postCount.
generateDailyContentInclusive(plan) ==
  [k \in 1..(plan.postCount + 1) |->
    [id |-> "post_" \o ToString(now) \o "_" \o ToString(k - 1),
     contentLength |-> contentLength(plan.theme),
     platforms |-> plan.platforms,
     scheduledTime |-> calculateOptimalTime(k - 1, plan.postCount),
     theme |-> plan.theme,
     status |-> "pending"]]
\* async generateDailyContent(): Promise<SocialPost[]>
\* (plan: what contentStrategy.getTodaysPlan() returned; the loop index i of
\* the code is k - 1)
generateDailyContent(plan) ==
  [k \in 1..plan.postCount |->
    [id |-> "post_" \o ToString(now) \o "_" \o ToString(k - 1),
     contentLength |-> contentLength(plan.theme),
     platforms |-> plan.platforms,
     scheduledTime |-> calculateOptimalTime(k - 1, plan.postCount),
     theme |-> plan.theme,
     status |-> "pending"]]

\* async schedulePost(post): this.queue.push(post)
schedulePost(p) ==
  scheduler' = [scheduler EXCEPT !.queue = Append(@, p), !.i = @ + 1]

\* ---------------------------------------------------------------- steps
\* A caller constructs a SocialPost object and submits it.
SubmitNew(inputs) ==
  /\ Len(heap) < MaxPosts
  /\ QueueLen < MaxQueue
  /\ \E p \in inputs : submit(Append(heap, p), Len(heap) + 1)
  /\ UNCHANGED returned
  /\ UNCHANGED schedVars
  /\ UNCHANGED ioVars

SubmitNewPost == SubmitNew(PostInputs)

SubmitNewDraft == SubmitNew(DraftInputs)

SubmitNewUnchecked == SubmitNew(RegistryInputs)

SubmitNewForPublish == SubmitNew(PublishInputs)

SubmitNewMedia == SubmitNew(MediaInputs)

\* A caller submits an object it has submitted before.
Resubmit ==
  /\ QueueLen < MaxQueue
  /\ \E p \in Refs : submit(heap, p)
  /\ UNCHANGED returned
  /\ UNCHANGED schedVars
  /\ UNCHANGED ioVars

Approve ==
  /\ \E postId \in PostIds : approve(postId)
  /\ UNCHANGED returned
  /\ UNCHANGED schedVars
  /\ UNCHANGED ioVars

Reject ==
  /\ \E postId \in PostIds, reason \in ReasonInputs : reject(postId, reason)
  /\ UNCHANGED returned
  /\ UNCHANGED schedVars
  /\ UNCHANGED ioVars

\* getQueue() as a draining read: hands out the buckets and empties them.
GetQueueDrains ==
  /\ returned' = [ref |-> "copy", copy |-> queue]
  /\ queue' = EmptyQueue
  /\ last' = Call("getQueue", 0, "", "", "void")
  /\ UNCHANGED heap
  /\ UNCHANGED schedVars
  /\ UNCHANGED ioVars
GetQueue ==
  /\ returned' = getQueue
  /\ last' = Call("getQueue", 0, "", "", "void")
  /\ UNCHANGED <<heap, queue>>
  /\ UNCHANGED schedVars
  /\ UNCHANGED ioVars

\* A caller hands a post it holds to the connector, for one of its targets.
Post ==
  /\ Len(console) < MaxLog
  /\ \E r \in Refs : \E k \in DOMAIN heap[r].platforms :
       post(heap[r].platforms[k], r)
  /\ UNCHANGED returned
  /\ UNCHANGED schedVars
  /\ UNCHANGED <<tracker, result>>

\* SofieLabsSocial.approveAndPost(postId): await approvalSystem.approve(postId),
\* then the line "Posted: <postId>"; last records the approve call.
ApproveAndPost ==
  /\ Len(console) < MaxLog
  /\ \E postId \in PostIds :
       /\ approve(postId)
       /\ console' = Append(console, Line("Posted", 0, postId, ""))
  /\ UNCHANGED returned
  /\ UNCHANGED schedVars
  /\ UNCHANGED <<tracker, result>>

Schedule ==
  /\ \E r \in Refs : \E k \in DOMAIN heap[r].platforms :
       schedule(heap[r].platforms[k], r)
  /\ UNCHANGED returned
  /\ UNCHANGED schedVars
  /\ UNCHANGED ioVars

\* ---------------------------------------------------------------- the scheduler's run
\* run(), up to its first await: posts = await this.generateDailyContent()
\* (plan: what contentStrategy.getTodaysPlan() returns)
runStart(plan) ==
  /\ scheduler.i = 0
  /\ scheduler' = [scheduler EXCEPT !.plan = plan,
                                    !.posts = generateDailyContent(plan),
                                    !.i = 1, !.runs = @ + 1]
  /\ last' = Call("generateDailyContent", 0, "", "", "void")
  /\ UNCHANGED <<strategy, drafts, heap, queue, returned, clock>>
  /\ UNCHANGED ioVars

RunStart ==
  /\ scheduler.runs < MaxRuns
  /\ runStart(getTodaysPlan)

\* The same with the day's post count set to any number up to MaxPostCount
\* (ContentPlan.postCount is a number; WEEKLY_STRATEGY's entries can be edited).
RunStartQuota ==
  /\ scheduler.runs < MaxQuotaRuns
  /\ \E n \in 0..MaxPostCount :
       runStart([getTodaysPlan EXCEPT !.postCount = n])

\* run(), one turn of its loop: await this.schedulePost(post)
SchedulePost ==
  /\ scheduler.i # 0
  /\ scheduler.i <= Len(scheduler.posts)
  /\ schedulePost(scheduler.posts[scheduler.i])
  /\ last' = Call("schedulePost", 0, scheduler.posts[scheduler.i].id, "", "void")
  /\ UNCHANGED <<strategy, drafts, heap, queue, returned, clock>>
  /\ UNCHANGED ioVars

\* run() returns: the loop is through.
RunEnd ==
  /\ scheduler.i > Len(scheduler.posts)
  /\ scheduler' = [scheduler EXCEPT !.i = 0]
  /\ last' = Call("run", 0, "", "", "void")
  /\ UNCHANGED <<strategy, drafts, heap, queue, returned, clock>>
  /\ UNCHANGED ioVars

\* The clock advances within the day.
Tick ==
  /\ clock.ms < MaxMs
  /\ clock' = [clock EXCEPT !.ms = @ + 1]
  /\ UNCHANGED <<strategy, drafts, heap, queue, returned, last, scheduler>>
  /\ UNCHANGED ioVars

\* The clock passes midnight.
NextDay ==
  /\ clock.day < MaxDay
  /\ clock' = [day |-> clock.day + 1, ms |-> 0]
  /\ UNCHANGED <<strategy, drafts, heap, queue, returned, last, scheduler>>
  /\ UNCHANGED ioVars

\* ---------------------------------------------------------------- a caller's drafts
\* A caller asks the scheduler for the day's drafts:
\* const posts = await scheduler.generateDailyContent()
GenerateDailyContent ==
  /\ drafts' = [drafts EXCEPT !.posts = generateDailyContent(getTodaysPlan)]
  /\ last' = Call("generateDailyContent", 0, "", "", "void")
  /\ UNCHANGED <<strategy, heap, queue, returned, clock, scheduler>>
  /\ UNCHANGED ioVars

\* generateDailyContent builds each post with platforms: plan.platforms, the
\* array of the WEEKLY_STRATEGY entry itself: one array per theme, which the
\* entry and every post generated from it hold. Writing list to that array
\* shows in each of its holders among posts.
setPlatforms(posts, theme, list) ==
  [k \in DOMAIN posts |->
    IF posts[k].theme = theme
    THEN [posts[k] EXCEPT !.platforms = list]
    ELSE posts[k]]

\* Array.prototype.pop
pop(arr) == IF arr = << >> THEN arr ELSE SubSeq(arr, 1, Len(arr) - 1)

\* The caller edits the platforms of a draft in place:
\* posts[k].platforms.push("mastodon"), or posts[k].platforms.pop()
EditPlatforms ==
  /\ drafts.edits < MaxEdits
  /\ \E k \in DOMAIN drafts.posts :
     \E list \in {Append(drafts.posts[k].platforms, "mastodon"),
                  pop(drafts.posts[k].platforms)} :
       LET theme == drafts.posts[k].theme
       IN  /\ strategy' = [strategy EXCEPT ![theme].platforms = list]
           /\ drafts' = [posts |-> setPlatforms(drafts.posts, theme, list),
                         edits |-> drafts.edits + 1]
           /\ scheduler' =
                [scheduler EXCEPT !.queue = setPlatforms(@, theme, list),
                                  !.posts = setPlatforms(@, theme, list)]
           /\ last' = Call("edit", 0, drafts.posts[k].id, theme, "void")
  /\ UNCHANGED <<heap, queue, returned, clock>>
  /\ UNCHANGED ioVars

\* ---------------------------------------------------------------- the strategy's readers
\* A caller asks for the hashtags of a theme.
GetHashtags ==
  /\ \E theme \in ContentTheme :
       /\ result' = getHashtags(theme)
       /\ last' = Call("getHashtags", 0, "", theme, "void")
  /\ UNCHANGED <<strategy, drafts, heap, queue, returned, clock, scheduler, console, tracker>>

\* A caller asks for today's plan.
GetTodaysPlan ==
  /\ result' = getTodaysPlan
  /\ last' = Call("getTodaysPlan", 0, "", "", "void")
  /\ UNCHANGED <<strategy, drafts, heap, queue, returned, clock, scheduler, console, tracker>>

\* ---------------------------------------------------------------- analytics
TrackPost ==
  /\ \E platform \in {"twitter", "instagram"}, postId \in PostIds,
        likes \in LikesInputs :
       trackPost(platform, postId, likes)
  /\ UNCHANGED <<strategy, drafts, heap, queue, returned, clock, scheduler, console, result>>

\* SofieLabsSocial.getAnalytics() / analytics.getDashboard()
GetDashboard ==
  /\ getDashboard
  /\ UNCHANGED <<strategy, drafts, heap, queue, returned, clock, scheduler, console>>

\* ---------------------------------------------------------------- the caller
\* The architect's tooling holds what getQueue() returned and works on it.
Buckets == {"pending", "approved", "rejected"}

\* The buckets reached through the returned value.
deref == IF returned.ref = "this.queue" THEN queue ELSE returned.copy

\* A write through the returned value lands in the object it refers to.
store(q) ==
  IF returned.ref = "this.queue"
  THEN queue' = q /\ UNCHANGED returned
  ELSE returned' = [returned EXCEPT !.copy = q] /\ UNCHANGED queue

\* q.approved.push(post)
CallerPush ==
  /\ returned.ref # "none"
  /\ Len(deref.pending) + Len(deref.approved) + Len(deref.rejected) < MaxQueue
  /\ \E r \in Refs : store([deref EXCEPT !.approved = Append(@, r)])
  /\ last' = Call("caller.push", 0, "", "", "void")
  /\ UNCHANGED heap
  /\ UNCHANGED schedVars
  /\ UNCHANGED ioVars

\* q.pending.pop()
CallerPop ==
  /\ returned.ref # "none"
  /\ deref.pending # << >>
  /\ store([deref EXCEPT !.pending = SubSeq(@, 1, Len(@) - 1)])
  /\ last' = Call("caller.pop", 0, "", "", "void")
  /\ UNCHANGED heap
  /\ UNCHANGED schedVars
  /\ UNCHANGED ioVars

\* q.rejected.push(q.pending.shift())
CallerMove ==
  /\ returned.ref # "none"
  /\ deref.pending # << >>
  /\ store([deref EXCEPT !.rejected = Append(@, deref.pending[1]),
                         !.pending = Tail(@)])
  /\ last' = Call("caller.move", 0, "", "", "void")
  /\ UNCHANGED heap
  /\ UNCHANGED schedVars
  /\ UNCHANGED ioVars

\* ---------------------------------------------------------------- specifications
\* The approval queue under its own operations.
Next == SubmitNewPost \/ Resubmit \/ Approve \/ Reject

Spec == Init /\ [][Next]_vars

\* The same, with draft posts that may target unregistered platforms.
NextRegistry == SubmitNewUnchecked \/ Resubmit \/ Approve \/ Reject

SpecRegistry == Init /\ [][NextRegistry]_vars

\* The approval queue with a caller that keeps and edits getQueue()'s result.
NextCaller ==
  \/ SubmitNewDraft \/ Resubmit \/ Approve \/ Reject
  \/ GetQueue \/ CallerPush \/ CallerPop \/ CallerMove

SpecCaller == Init /\ [][NextCaller]_vars

\* The approval queue and the connector.
NextPublish ==
  \/ SubmitNewForPublish \/ Resubmit \/ Approve \/ Reject
  \/ Post \/ Schedule \/ ApproveAndPost

SpecPublish == Init /\ [][NextPublish]_vars

\* The scheduler's daily run, over the days of a week.
NextScheduler == RunStart \/ SchedulePost \/ RunEnd \/ Tick \/ NextDay

SpecScheduler == Init /\ [][NextScheduler]_vars

\* The scheduler's run with a plan of any post count.
NextQuota == RunStartQuota \/ SchedulePost \/ RunEnd \/ NextDay

SpecQuota == Init /\ [][NextQuota]_vars

\* The content strategy's read operations, over the days of a week.
NextStrategy == GetHashtags \/ GetTodaysPlan \/ Tick \/ NextDay

SpecStrategy == Init /\ [][NextStrategy]_vars

\* The analytics tracker beside the approval queue.
NextAnalytics == SubmitNewDraft \/ Approve \/ TrackPost \/ GetDashboard

SpecAnalytics == Init /\ [][NextAnalytics]_vars

\* The approval queue under posts of any content length.
NextLength == SubmitNewForPublish \/ Resubmit \/ Approve \/ Reject

SpecLength == Init /\ [][NextLength]_vars

\* The connector under posts that carry media.
NextMedia == SubmitNewMedia \/ Approve \/ Post \/ Schedule

SpecMedia == Init /\ [][NextMedia]_vars

\* The scheduler with a caller that takes the day's drafts and edits them.
NextAlias ==
  \/ GenerateDailyContent
  \/ EditPlatforms
  \/ RunStart
  \/ SchedulePost
  \/ RunEnd
  \/ NextDay

SpecAlias == Init /\ [][NextAlias]_vars

\* ---------------------------------------------------------------- properties
\* Whether reference r is an element of bucket b of the queue value q.
InBucket(q, b, r) == \E i \in DOMAIN q[b] : q[b][i] = r

\* Whether the pending bucket holds a post with this id.
PendingHasId(postId) ==
  \E i \in DOMAIN queue.pending : heap[queue.pending[i]].id = postId

\* The three buckets, end to end.
AllQueued == queue.pending \o queue.approved \o queue.rejected

\* The themes the configuration names as auto-trusted.
AutoTrustedSet == {"day_in_hive", "token_tuesday"}

\* The edges of the post state machine.
StatusEdges ==
  { <<"pending", "approved">>, <<"pending", "rejected">>,
    <<"approved", "posted">>, <<"approved", "failed">> }

\* C1: in every step, the status of every post changes only along an edge of
\* the state machine (pending->approved, pending->rejected, approved->posted,
\* approved->failed), and a post that has left pending (it is in the approved
\* or the rejected bucket) is not put back: after the step its status is not
\* pending and it is not in the pending bucket.
C1_StatusMovesForward ==
  [][\A r \in DOMAIN heap :
       /\ heap'[r].status # heap[r].status
            => <<heap[r].status, heap'[r].status>> \in StatusEdges
       /\ (InBucket(queue, "approved", r) \/ InBucket(queue, "rejected", r))
            => /\ heap'[r].status # "pending"
               /\ ~InBucket(queue', "pending", r)]_vars

\* C2: in every reachable state no post id occurs twice over the three buckets:
\* the buckets are pairwise disjoint and each is free of duplicates.
C2_BucketsPartition ==
  \A i, j \in DOMAIN AllQueued :
    i # j => heap[AllQueued[i]].id # heap[AllQueued[j]].id

\* C3: a submit of a post whose theme is day_in_hive or token_tuesday sets the
\* post's status to approved, appends the post to the approved bucket, leaves
\* the pending and rejected buckets as they were and the post in neither, and
\* returns true; approve has no part in the step.
C3_AutoTrustedSubmit ==
  [][(last'.op = "submit" /\ heap'[last'.post].theme \in AutoTrustedSet)
       => /\ heap'[last'.post].status = "approved"
          /\ queue'.approved = Append(queue.approved, last'.post)
          /\ queue'.pending = queue.pending
          /\ queue'.rejected = queue.rejected
          /\ ~InBucket(queue', "pending", last'.post)
          /\ ~InBucket(queue', "rejected", last'.post)
          /\ last'.ret = "true"]_vars

\* C3 witness: a token_tuesday post has just been submitted and sits approved
\* in the approved bucket.
C3_Witness ==
  /\ last.op = "submit"
  /\ heap[last.post].theme = "token_tuesday"
  /\ heap[last.post].status = "approved"
  /\ InBucket(queue, "approved", last.post)
  /\ last.ret = "true"

\* C4: after a submit of a post whose theme is not auto-trusted, the post has
\* status pending, is in the pending bucket, and submit returned false.
C4_NonTrustedSubmit ==
  (last.op = "submit" /\ heap[last.post].theme \notin AutoTrustedSet)
    => /\ heap[last.post].status = "pending"
       /\ InBucket(queue, "pending", last.post)
       /\ last.ret = "false"

\* C5: an approve of an id that no pending post has fails with NotFoundError
\* and changes neither a bucket nor a status.
C5_ApproveNotFound ==
  [][(last'.op = "approve" /\ ~PendingHasId(last'.id))
       => /\ last'.ret = "NotFoundError"
          /\ heap' = heap
          /\ queue' = queue]_vars

\* C6: an approve of a post id takes every post of the pending bucket that has
\* this id out of pending, puts it into the approved bucket and sets its status
\* to approved.
C6_ApproveMoves ==
  [][last'.op = "approve"
       => \A r \in DOMAIN heap :
            (heap[r].id = last'.id /\ InBucket(queue, "pending", r))
              => /\ ~InBucket(queue', "pending", r)
                 /\ InBucket(queue', "approved", r)
                 /\ heap'[r].status = "approved"]_vars

\* C7: a reject with a non-empty reason of a post id takes every post of the
\* pending bucket that has this id out of pending, puts it into the rejected
\* bucket and leaves it with status rejected.
C7_RejectMoves ==
  [][(last'.op = "reject" /\ last'.arg # "")
       => \A r \in DOMAIN heap :
            (heap[r].id = last'.id /\ InBucket(queue, "pending", r))
              => /\ ~InBucket(queue', "pending", r)
                 /\ InBucket(queue', "rejected", r)
                 /\ heap'[r].status = "rejected"]_vars

\* C8: a reject with the empty reason fails with InvalidArgumentError and
\* changes neither a bucket nor a status, so the post stays pending.
C8_RejectEmptyReason ==
  [][(last'.op = "reject" /\ last'.arg = "")
       => /\ last'.ret = "InvalidArgumentError"
          /\ heap' = heap
          /\ queue' = queue]_vars

\* Whether every platform the post targets is a key of PLATFORMS.
TargetsKnown(r) ==
  \A k \in DOMAIN heap[r].platforms : heap[r].platforms[k] \in DOMAIN PLATFORMS

\* C9: every post in a bucket targets only platforms of the registry, and a
\* submit of a post that targets an unknown platform fails with
\* InvalidPlatformError.
C9_KnownPlatformsOnly ==
  /\ \A i \in DOMAIN AllQueued : TargetsKnown(AllQueued[i])
  /\ (last.op = "submit" /\ ~TargetsKnown(last.post))
       => last.ret = "InvalidPlatformError"

\* C10: no edit a caller makes to the value getQueue() returned changes the
\* approval queue's own buckets.
C10_SnapshotIsolated ==
  [][last'.op \in {"caller.push", "caller.pop", "caller.move"}
       => queue' = queue]_vars

\* C11: a getQueue() call changes no bucket and no post, and the value it
\* returns holds exactly the three buckets as they are; when the call before
\* it was a getQueue() too, both calls return the same three buckets.
C11_GetQueueReadOnly ==
  [][last'.op = "getQueue"
       => /\ queue' = queue
          /\ heap' = heap
          /\ returned'.ref # "none"
          /\ deref' = queue
          /\ last.op = "getQueue" => deref' = deref]_vars

\* C11 witness: getQueue() has just returned a queue that holds a pending and
\* an approved post.
C11_Witness ==
  /\ last.op = "getQueue"
  /\ returned.ref # "none"
  /\ deref.pending # << >>
  /\ deref.approved # << >>

\* The statuses the state machine has no edge out of.
TerminalStatuses == {"posted", "failed", "rejected"}

\* C12: a post whose status is posted, failed or rejected keeps that status
\* in every later step and stays in exactly the buckets it is in.
C12_TerminalStatusesStay ==
  [][\A r \in DOMAIN heap :
       heap[r].status \in TerminalStatuses
         => /\ heap'[r].status = heap[r].status
            /\ \A b \in Buckets :
                 InBucket(queue', b, r) <=> InBucket(queue, b, r)]_vars

\* Whether reference r is in one of the three buckets.
Queued(q, r) == \E b \in Buckets : InBucket(q, b, r)

\* C13: no step deletes a post: a post that is in a bucket is in a bucket
\* after the step, a submit adds one entry to the buckets' total and an
\* approve or a reject leaves the total as it is.
C13_NoPostDeleted ==
  [][/\ \A r \in DOMAIN heap : Queued(queue, r) => Queued(queue', r)
     /\ Len(queue'.pending) + Len(queue'.approved) + Len(queue'.rejected)
          = QueueLen + (IF last'.op = "submit" THEN 1 ELSE 0)]_vars

\* How many entries of the three buckets of q refer to r.
Occurrences(q, r) ==
  LET all == q.pending \o q.approved \o q.rejected
  IN  Cardinality({i \in DOMAIN all : all[i] = r})

\* C14: calls interleave as indivisible steps, and in every such step: an
\* approve or reject that follows an approve or reject of the same id that
\* took effect has no effect; an approve or reject that takes effect leaves
\* its post in exactly one bucket, once; and no post id occurs twice over the
\* buckets after the step.
C14_RaceOneTakesEffect ==
  [][/\ (/\ last.op \in {"approve", "reject"} /\ last.post # 0
         /\ last'.op \in {"approve", "reject"} /\ last'.id = last.id)
          => last'.post = 0 /\ heap' = heap /\ queue' = queue
     /\ (last'.op \in {"approve", "reject"} /\ last'.post # 0)
          => Occurrences(queue', last'.post) = 1
     /\ \A i, j \in DOMAIN AllQueued' :
          i # j => heap'[AllQueued'[i]].id # heap'[AllQueued'[j]].id]_vars

\* C15: a post the connector has dispatched (post or schedule returned true)
\* has status approved.
C15_ApprovalGate ==
  (last.op \in {"post", "schedule"} /\ last.ret = "true")
    => heap[last.post].status = "approved"

\* C16: when run() has returned, every post it generated is in the pending
\* or the approved bucket of the approval queue.
C16_RunSubmitsAll ==
  last.op = "run"
    => \A k \in DOMAIN scheduler.posts :
         \E b \in {"pending", "approved"} : \E j \in DOMAIN queue[b] :
           heap[queue[b][j]].id = scheduler.posts[k].id

\* The five optimal hours.
OptimalTimes == <<8, 12, 15, 18, 20>>

\* The hours of a list of posts, in order.
Hours(posts) == [k \in DOMAIN posts |-> posts[k].scheduledTime.hour]

\* C17: a run for a plan with post count N generates exactly N posts, and
\* the post of index i (from 0) is scheduled on the day of the run at hour
\* OptimalTimes[i mod 5]; for N = 5 the hours are 8,12,15,18,20 and for N = 7
\* they are 8,12,15,18,20,8,12.
C17_OptimalTimesCycle ==
  [][scheduler'.runs = scheduler.runs + 1
       => LET N == scheduler'.plan.postCount
              posts == scheduler'.posts
          IN  /\ Len(posts) = N
              /\ \A k \in 1..N :
                   posts[k].scheduledTime =
                     [day |-> clock.day, hour |-> OptimalTimes[((k - 1) % 5) + 1]]
              /\ N = 5 => Hours(posts) = <<8, 12, 15, 18, 20>>
              /\ N = 7 => Hours(posts) = <<8, 12, 15, 18, 20, 8, 12>>]_vars

\* C17 witness: a run for a plan of 7 posts is through, and its seventh post
\* is scheduled at 12.
C17_Witness ==
  /\ last.op = "run"
  /\ scheduler.plan.postCount = 7
  /\ Len(scheduler.posts) = 7
  /\ scheduler.posts[7].scheduledTime.hour = 12
  /\ Len(scheduler.queue) >= 7

\* C18: no two posts the scheduler has created and queued have the same id.
C18_SchedulerIdsUnique ==
  \A i, j \in DOMAIN scheduler.queue :
    i # j => scheduler.queue[i].id # scheduler.queue[j].id

\* C19: when the connector has been asked to publish an approved post, the
\* post's status records the outcome: posted when a send succeeded (post
\* returned true), failed when none did.
C19_PublishOutcome ==
  [][(last'.op = "post" /\ heap[last'.post].status = "approved")
       => heap'[last'.post].status
            = (IF last'.ret = "true" THEN "posted" ELSE "failed")]_vars

\* C20: a post whose content is longer than the platform's maxCharacters is
\* not sent to that platform: post does not return true, and the post's
\* status is failed when the platform is its only target.
C20_LengthValidated ==
  (/\ last.op = "post"
   /\ last.arg \in DOMAIN PLATFORMS
   /\ heap[last.post].contentLength > PLATFORMS[last.arg].maxCharacters)
    => /\ last.ret # "true"
       /\ heap[last.post].platforms = <<last.arg>>
            => heap[last.post].status = "failed"

\* Whether the post passes the platform's validation: the platform is in the
\* registry and the content is within its maxCharacters.
Valid(r, platform) ==
  /\ platform \in DOMAIN PLATFORMS
  /\ heap[r].contentLength <= PLATFORMS[platform].maxCharacters

\* The console lines a step has added.
NewLines == SubSeq(console', Len(console) + 1, Len(console'))

\* How many of the lines are sends of post r to the platform.
Sends(lines, r, platform) ==
  Cardinality({n \in DOMAIN lines :
                 /\ lines[n].tag = "Posting"
                 /\ lines[n].post = r
                 /\ lines[n].platform = platform})

\* Whether the step is an approveAndPost that reported a post as posted.
ReportedPosted ==
  /\ Len(console') > Len(console)
  /\ console'[Len(console')].tag = "Posted"

\* C21: a step that publishes a post sends it exactly once to each targeted
\* platform it is valid for and not at all to a platform it is not valid
\* for: a connector post to one platform, and an approveAndPost over all the
\* targets of the post it approved.
C21_OneSendPerValidPlatform ==
  [][/\ last'.op = "post"
          => Sends(NewLines, last'.post, last'.arg)
               = (IF Valid(last'.post, last'.arg) THEN 1 ELSE 0)
     /\ (ReportedPosted /\ last'.post # 0)
          => \A k \in DOMAIN heap[last'.post].platforms :
               Sends(NewLines, last'.post, heap[last'.post].platforms[k])
                 = (IF Valid(last'.post, heap[last'.post].platforms[k])
                    THEN 1 ELSE 0)]_vars

\* The weekday index (0: Sunday) of the day a scheduler post was generated on.
Weekday(p) == (p.scheduledTime.day + 4) % 7

\* C22: on every day getTodayTheme yields one of the seven themes, and over
\* all posts the scheduler has generated, two posts have the same theme
\* exactly when they were generated on the same weekday: one theme per
\* weekday on every call, and no theme for two weekdays, so that the seven
\* weekdays yield the seven themes.
C22_WeekdayThemeBijection ==
  /\ getTodayTheme \in ContentTheme
  /\ \A i, j \in DOMAIN scheduler.queue :
       (Weekday(scheduler.queue[i]) = Weekday(scheduler.queue[j]))
         <=> (scheduler.queue[i].theme = scheduler.queue[j].theme)

\* C22 witness: two runs on different weekdays are through and their posts
\* carry different themes, the later one Wednesday's.
C22_Witness ==
  /\ last.op = "run"
  /\ scheduler.runs = 2
  /\ getTodayTheme = "wellness_wednesday"
  /\ \E i, j \in DOMAIN scheduler.queue :
       /\ scheduler.queue[i].theme = "token_tuesday"
       /\ scheduler.queue[j].theme = "wellness_wednesday"

\* The platform-wide tags.
BaseTags == <<"#SofieLabs", "#TerraCare">>

C24_RecordingUpserts ==
  /\ (last.op = "trackPost" /\ tracker.call.likes >= 0)
       => \E n \in DOMAIN tracker.metrics :
            /\ tracker.metrics[n].key = <<tracker.call.platform, tracker.call.postId>>
            /\ tracker.metrics[n].value.likes = tracker.call.likes
  /\ (last.op = "getDashboard" /\ tracker.call # NoTrack)
       => \E n \in DOMAIN result.platforms :
            result.platforms[n].platform = tracker.call.platform

\* C25: a recording with a negative count fails with InvalidArgumentError
\* and leaves the tracker's metrics as they were.
C25_NegativeMetricsRefused ==
  [][(last'.op = "trackPost" /\ tracker'.call.likes < 0)
       => /\ last'.ret = "InvalidArgumentError"
          /\ tracker'.metrics = tracker.metrics]_vars

\* C26: a getDashboard call changes neither the tracker nor a post, a bucket,
\* the scheduler or the console, and a trackPost call changes no post, no
\* bucket and nothing the connector has sent.
C26_DashboardReadOnly ==
  [][/\ last'.op = "getDashboard"
          => /\ tracker' = tracker
             /\ heap' = heap /\ queue' = queue
             /\ scheduler' = scheduler /\ console' = console
     /\ last'.op = "trackPost"
          => heap' = heap /\ queue' = queue /\ console' = console]_vars

\* C26 witness: a dashboard has been returned while the queue holds an
\* approved post and a recording has been made.
C26_Witness ==
  /\ last.op = "getDashboard"
  /\ result.platforms = << >>
  /\ tracker.call # NoTrack
  /\ queue.approved # << >>

\* C27: every daily run generates as many posts as the day's plan counts,
\* at least 3 and at most 5, and the runs that are through have queued
\* between 3 and 5 posts each.
C27_ThreeToFivePosts ==
  /\ scheduler.runs > 0
       => /\ Len(scheduler.posts) = WEEKLY_STRATEGY[scheduler.plan.theme].postCount
          /\ Len(scheduler.posts) >= 3
          /\ Len(scheduler.posts) <= 5
  /\ scheduler.i = 0
       => /\ Len(scheduler.queue) >= 3 * scheduler.runs
          /\ Len(scheduler.queue) <= 5 * scheduler.runs

\* C27 witness: a run of 3 posts and a run of 5 posts are through.
C27_Witness ==
  /\ last.op = "run"
  /\ scheduler.i = 0
  /\ Len(scheduler.posts) = 5
  /\ Len(scheduler.queue) = 8

\* C28: every post the scheduler has generated and queued has status
\* approved when its theme is auto-trusted and status pending otherwise, and
\* no post of an auto-trusted theme is in the approval queue's pending bucket.
C28_GeneratedStatus ==
  /\ \A n \in DOMAIN scheduler.queue :
       scheduler.queue[n].status
         = (IF scheduler.queue[n].theme \in AutoTrustedSet
            THEN "approved" ELSE "pending")
  /\ \A n \in DOMAIN queue.pending :
       heap[queue.pending[n]].theme \notin AutoTrustedSet

\* C29: a reject, with a non-empty reason, of an id that no pending post has
\* fails with NotFoundError and changes neither a bucket nor a status.
C29_RejectNotFound ==
  [][(last'.op = "reject" /\ last'.arg # "" /\ ~PendingHasId(last'.id))
       => /\ last'.ret = "NotFoundError"
          /\ heap' = heap
          /\ queue' = queue]_vars

\* C30: an approveAndPost of an id a pending post has leaves that post with
\* status posted or failed and has sent it to each of its platforms; an
\* approveAndPost of an id no pending post has sends nothing and reports
\* nothing as posted.
C30_ApproveAndPostDispatches ==
  [][/\ (ReportedPosted /\ last'.post # 0)
          => /\ heap'[last'.post].status \in {"posted", "failed"}
             /\ \A k \in DOMAIN heap[last'.post].platforms :
                  Sends(NewLines, last'.post, heap[last'.post].platforms[k]) >= 1
     /\ (last'.op = "approve" /\ last'.post = 0) => console' = console]_vars

\* Whether the content of post r of heap h is longer than the limit of a
\* platform it targets.
OverLimit(h, r) ==
  \E k \in DOMAIN h[r].platforms :
    /\ h[r].platforms[k] \in DOMAIN PLATFORMS
    /\ h[r].contentLength > PLATFORMS[h[r].platforms[k]].maxCharacters

\* C31: a submit of a post whose content is over a targeted platform's limit
\* is accepted like any other: the post is appended to approved (returning
\* true) when its theme is auto-trusted and to pending (returning false)
\* otherwise; and an approve that finds such a post pending moves it to
\* approved with status approved.
C31_LengthNotCheckedEarly ==
  [][/\ (last'.op = "submit" /\ OverLimit(heap', last'.post))
          => IF heap'[last'.post].theme \in AutoTrustedSet
             THEN /\ queue'.approved = Append(queue.approved, last'.post)
                  /\ last'.ret = "true"
             ELSE /\ queue'.pending = Append(queue.pending, last'.post)
                  /\ last'.ret = "false"
     /\ (last'.op = "approve" /\ last'.post # 0 /\ OverLimit(heap, last'.post))
          => /\ InBucket(queue', "approved", last'.post)
             /\ heap'[last'.post].status = "approved"]_vars

\* C31 witness: a post of 300 characters that targets twitter has been
\* submitted, was pending, and has just been approved.
C31_Witness ==
  /\ last.op = "approve"
  /\ last.post # 0
  /\ heap[last.post].contentLength = 300
  /\ includes(heap[last.post].platforms, "twitter")
  /\ heap[last.post].status = "approved"
  /\ InBucket(queue, "approved", last.post)

\* The media a post may carry, by kind.
ImageUrls == {"photo.png"}

VideoUrls == {"clip.mp4"}

\* Whether post r carries a kind of media the platform does not support.
MediaUnsupported(r, platform) ==
  \E m \in DOMAIN heap[r].mediaUrls :
    \/ heap[r].mediaUrls[m] \in ImageUrls /\ ~PLATFORMS[platform].supportsImages
    \/ heap[r].mediaUrls[m] \in VideoUrls /\ ~PLATFORMS[platform].supportsVideo

\* C32: a post that carries an image is not sent to a platform that does not
\* support images, nor one that carries a video to a platform that does not
\* support video (post does not return true), while the same post is sent
\* to each platform it is valid for.
C32_MediaValidated ==
  (last.op = "post" /\ last.arg \in DOMAIN PLATFORMS)
    => IF MediaUnsupported(last.post, last.arg)
       THEN last.ret # "true"
       ELSE Valid(last.post, last.arg) => last.ret = "true"

RunPosts ==
  {scheduler.posts[k] : k \in DOMAIN scheduler.posts}
    \cup {scheduler.queue[n] : n \in DOMAIN scheduler.queue}

\* C34: every post the scheduler has generated targets a non-empty list of
\* platforms, the list of its theme's plan, each of them in the registry.
C34_TargetsFromPlanInRegistry ==
  \A p \in RunPosts :
    /\ p.platforms # << >>
    /\ p.platforms = strategy[p.theme].platforms
    /\ \A k \in DOMAIN p.platforms : p.platforms[k] \in DOMAIN PLATFORMS

\* C35: no step changes WEEKLY_STRATEGY, and an edit of a draft's platforms
\* changes neither the scheduler's posts nor the platforms of another draft.
C35_TablesReadOnly ==
  [][/\ strategy' = strategy
     /\ drafts'.edits # drafts.edits
          => /\ scheduler' = scheduler
             /\ \A j \in DOMAIN drafts.posts :
                  drafts.posts[j].id # last'.id
                    => drafts'.posts[j].platforms = drafts.posts[j].platforms]_vars

\* C36: each queued post's status is the one of its bucket: pending in
\* pending, rejected in rejected, approved (or posted or failed, once
\* published) in approved; and a post with status pending is in pending only.
C36_BucketAgreesWithStatus ==
  \A r \in Refs :
    /\ InBucket(queue, "pending", r) => heap[r].status = "pending"
    /\ InBucket(queue, "rejected", r) => heap[r].status = "rejected"
    /\ InBucket(queue, "approved", r)
         => heap[r].status \in {"approved", "posted", "failed"}
    /\ heap[r].status = "pending"
         => /\ InBucket(queue, "pending", r)
            /\ ~InBucket(queue, "approved", r)
            /\ ~InBucket(queue, "rejected", r)

\* The array without its i-th element.
Without(arr, i) == SubSeq(arr, 1, i - 1) \o SubSeq(arr, i + 1, Len(arr))

\* C37: an approve or a reject that found no pending post changes nothing;
\* one that found a post takes that one entry out of pending, the order of
\* the rest kept, appends it to its destination bucket, and leaves the third
\* bucket and every other post as they were.
C37_OnlyTargetMoves ==
  [][last'.op \in {"approve", "reject"}
       => LET r == last'.post
              dest == IF last'.op = "approve" THEN "approved" ELSE "rejected"
              third == IF last'.op = "approve" THEN "rejected" ELSE "approved"
          IN  IF r = 0
              THEN heap' = heap /\ queue' = queue
              ELSE /\ \E i \in DOMAIN queue.pending :
                        /\ queue.pending[i] = r
                        /\ queue'.pending = Without(queue.pending, i)
                   /\ queue'[dest] = Append(queue[dest], r)
                   /\ queue'[third] = queue[third]
                   /\ \A x \in Refs \ {r} : heap'[x] = heap[x]]_vars

\* The weekday names, by Date.prototype.getDay's index (0: Sunday).
DayNames ==
  <<"Sunday", "Monday", "Tuesday", "Wednesday", "Thursday", "Friday",
    "Saturday">>

\* Today's weekday index; day 0 of the clock, 1 January 1970, is a Thursday.
Today == (clock.day + 4) % 7

\* C38: on every day getTodaysPlan is the WEEKLY_STRATEGY entry of
\* getTodayTheme's theme, that entry's day field names today's weekday, and
\* every post the scheduler has generated carries the theme whose entry names
\* the weekday the post was generated on.
C38_PlanMatchesWeekday ==
  /\ \E theme \in DOMAIN strategy : getTodaysPlan = strategy[theme]
  /\ getTodaysPlan.theme = getTodayTheme
  /\ getTodaysPlan.day = DayNames[Today + 1]
  /\ \A p \in RunPosts :
       /\ p.theme \in DOMAIN strategy
       /\ strategy[p.theme].theme = p.theme
       /\ strategy[p.theme].day = DayNames[Weekday(p) + 1]

\* C38 witness: a Sunday, and the one run so far, made today, is through:
\* its three posts carry Sunday's theme.
C38_Witness ==
  /\ last.op = "run"
  /\ scheduler.runs = 1
  /\ Today = 0
  /\ Len(scheduler.queue) = 3
  /\ \A n \in DOMAIN scheduler.queue :
       /\ Weekday(scheduler.queue[n]) = 0
       /\ scheduler.queue[n].theme = "sovereignty_sunday"

====
